---- MODULE Spec2Model ----
(***************************************************************************)
(* Memory-mapped immutable payload indexes with a buffered deletion        *)
(* bitset.  This part models the full-text inverted index                  *)
(* (MmapInvertedIndex): build (create), open, the readers, remove and      *)
(* flush.  Point ids and token ids are 0-based as in the source; TLA+      *)
(* sequences (posting lists, documents, queries) are 1-based.              *)
(***************************************************************************)
EXTENDS Naturals, Integers, Sequences, FiniteSets, TLC

(***************************************************************************)
(* Bounds of the model.                                                    *)
(***************************************************************************)
\* largest number of points of a snapshot (length of point_to_tokens_count)
MaxPoints == 2
\* number of bits of the machine word the bitset file is rounded up to
\* (usize::BITS scaled down)
WordBits == 2

\* the vocabulary of the snapshot: token ids are dense in 0 .. Len - 1
Vocabulary == <<"cat", "dog">>
\* a token string that is not in the vocabulary
UnknownToken == "fish"
TokenStrings == {Vocabulary[i] : i \in 1..Len(Vocabulary)} \cup {UnknownToken}

TokenIds == 0..(Len(Vocabulary) - 1)
\* token ids a query may hold: the known ones plus one the posting store
\* does not know
QueryTokenIds == 0..Len(Vocabulary)

\* the documents a point of the snapshot may hold (sequences of token ids;
\* the empty document is a point without tokens)
Documents ==
    { <<>>, <<0, 0>>, <<0, 1>>, <<1, 0>>, <<0, 1, 0>> }

(***************************************************************************)
(* Option<T> and the outcome of a call that may panic.                     *)
(***************************************************************************)
None == <<>>
Some(x) == <<x>>
unwrap_or(opt, default) == IF opt = None THEN default ELSE opt[1]

Ok(v) == [panicked |-> FALSE, value |-> v]
Panic == [panicked |-> TRUE, value |-> FALSE]

(***************************************************************************)
(* The in-memory snapshot (ImmutableInvertedIndex) the index is built      *)
(* from, derived from the documents of its points.                         *)
(***************************************************************************)
\* the 0-based positions of token t in document doc
positions_of(doc, t) == {i - 1 : i \in {j \in 1..Len(doc) : doc[j] = t}}

doc_tokens(doc) == {doc[i] : i \in 1..Len(doc)}

\* posting list of token t over points p .. n-1: ascending point ids, each
\* with the positions of t in the point's document
RECURSIVE posting_of(_, _, _, _, _)
posting_of(docs, n, t, p, with_positions) ==
    IF p >= n THEN <<>>
    ELSE (IF t \in doc_tokens(docs[p])
            THEN <<[id |-> p,
                    positions |-> IF with_positions
                                    THEN positions_of(docs[p], t) ELSE {}]>>
            ELSE <<>>)
         \o posting_of(docs, n, t, p + 1, with_positions)

ImmutableInvertedIndex(docs, n, with_positions) ==
    [postings |-> [variant |-> IF with_positions THEN "WithPositions" ELSE "Ids",
                   lists |-> [i \in 1..Len(Vocabulary) |->
                                posting_of(docs, n, i - 1, 0, with_positions)]],
     vocab |-> [s \in {Vocabulary[i] : i \in 1..Len(Vocabulary)} |->
                  (CHOOSE i \in 1..Len(Vocabulary) : Vocabulary[i] = s) - 1],
     point_to_tokens_count |-> [p \in 0..(n - 1) |-> Cardinality(doc_tokens(docs[p]))]]

Snapshots ==
    { ImmutableInvertedIndex(docs, n, wp) :
        docs \in [0..(MaxPoints - 1) -> Documents],
        n \in 1..MaxPoints, wp \in BOOLEAN }

(***************************************************************************)
(* Mmap primitives: the bitset file and its buffered update wrapper.       *)
(***************************************************************************)
round_up_to_word(n) == ((n + WordBits - 1) \div WordBits) * WordBits

\* MmapBitSlice::create: the bits of the vector, in a file rounded up to a
\* machine-word multiple; the padding bits are 0
MmapBitSlice_create(bitvec, n) ==
    [i \in 0..(round_up_to_word(n) - 1) |-> IF i < n THEN bitvec[i] ELSE FALSE]

count_ones(bitslice) == Cardinality({i \in DOMAIN bitslice : bitslice[i]})

\* MmapBitSliceBufferedUpdateWrapper::new
BufferedUpdateWrapper_new(bitslice) ==
    [bitslice |-> bitslice,
     len |-> Cardinality(DOMAIN bitslice),
     pending_updates |-> [i \in {} |-> TRUE]]

\* MmapBitSliceBufferedUpdateWrapper::get: None out of range, else the
\* pending update if there is one, else the bit of the file
deleted_get(dp, index) ==
    IF index >= dp.len THEN None
    ELSE IF index \in DOMAIN dp.pending_updates
           THEN Some(dp.pending_updates[index])
           ELSE Some(dp.bitslice[index])

\* MmapBitSliceBufferedUpdateWrapper::set: records the bit in the overlay
deleted_set(dp, index, value) ==
    [dp EXCEPT !.pending_updates =
        [i \in (DOMAIN dp.pending_updates) \cup {index} |->
            IF i = index THEN value ELSE dp.pending_updates[i]]]

\* the flusher of the wrapper: drains the overlay into the file
deleted_flush(dp) ==
    [dp EXCEPT !.bitslice =
                  [i \in DOMAIN dp.bitslice |->
                      IF i \in DOMAIN dp.pending_updates
                        THEN dp.pending_updates[i] ELSE dp.bitslice[i]],
               !.pending_updates = [i \in {} |-> TRUE]]

\* MmapSlice<usize>::get / get_mut
slice_get(slice, index) ==
    IF index \in DOMAIN slice THEN Some(slice[index]) ELSE None

(***************************************************************************)
(* create and open.  A directory is None (no postings.dat) or the four     *)
(* files of the index.                                                     *)
(***************************************************************************)
\* mutant: no point is marked deleted in the bitset
create_all_live(inverted_index) ==
    LET point_to_tokens_count == inverted_index.point_to_tokens_count
        n == Cardinality(DOMAIN point_to_tokens_count)
        deleted_bitslice == [i \in DOMAIN point_to_tokens_count |-> FALSE]
    IN  Some([postings |-> inverted_index.postings,
              vocab |-> inverted_index.vocab,
              deleted_points |-> MmapBitSlice_create(deleted_bitslice, n),
              point_to_tokens_count |-> point_to_tokens_count])

create(inverted_index) ==
    LET point_to_tokens_count == inverted_index.point_to_tokens_count
        n == Cardinality(DOMAIN point_to_tokens_count)
        deleted_bitslice == [i \in DOMAIN point_to_tokens_count |->
                                point_to_tokens_count[i] = 0]
    IN  Some([postings |-> inverted_index.postings,
              vocab |-> inverted_index.vocab,
              deleted_points |-> MmapBitSlice_create(deleted_bitslice, n),
              point_to_tokens_count |-> point_to_tokens_count])

open(dir, has_positions) ==
    IF dir = None
      THEN [storage |-> None, active_points_count |-> 0]
      ELSE LET files == dir[1]
               deleted == files.deleted_points
               num_deleted_points == count_ones(deleted)
               points_count ==
                   Cardinality(DOMAIN files.point_to_tokens_count) - num_deleted_points
           IN  [storage |->
                  Some([postings |->
                          [variant |-> IF has_positions THEN "WithPositions" ELSE "Ids",
                           lists |-> files.postings.lists],
                        vocab |-> files.vocab,
                        point_to_tokens_count |-> files.point_to_tokens_count,
                        deleted_points |-> BufferedUpdateWrapper_new(deleted)]),
                active_points_count |-> points_count]

\* the directories an index is opened on: one without postings.dat, or one
\* written by create from a snapshot
Directories ==
    {[dir |-> None, has_positions |-> FALSE]} \cup
    {[dir |-> create(s), has_positions |-> (s.postings.variant = "WithPositions")] :
        s \in Snapshots}

VARIABLES
    storage,              \* Option<Storage>
    active_points_count,  \* number of points which are not deleted
    lastOp,               \* the last call of a mutating method and what it returned
    calls,                \* the index as it was opened and the ids remove was called with
    dynamic_index,        \* the in-memory geo index MmapGeoMapIndex::build consumed
    geo_storage,          \* MmapGeoMapIndex::storage
    deleted_count,        \* MmapGeoMapIndex::deleted_count
    request,              \* Option: the request handed to the validation collaborator
    validation,           \* Option: what validate returned for it
    payload_storage       \* Option<PayloadStorageEnum>

vars == <<storage, active_points_count, lastOp, calls,
          dynamic_index, geo_storage, deleted_count,
          request, validation, payload_storage>>

\* the fields of MmapGeoMapIndex and of the snapshot it was built from
geo_vars == <<dynamic_index, geo_storage, deleted_count>>

\* the state outside the two indexes: the request under validation and the
\* payload storage
boundary_vars == <<request, validation, payload_storage>>

\* no request is being validated and no payload storage is open
NoBoundary ==
    /\ request = None
    /\ validation = None
    /\ payload_storage = None

\* no record of the calls is kept
NoCalls == [opened |-> None, removed |-> {}]

\* the point ids calls are made with: every id inside the largest bitset and
\* one past it
PointIds == 0..round_up_to_word(MaxPoints)

(***************************************************************************)
(* Posting store: per-token accessor, membership visitor, multi-way        *)
(* intersection and phrase matching.                                       *)
(***************************************************************************)
\* MmapPostings::get: None when the token id is out of range
postings_get(postings, token_id) ==
    IF token_id + 1 \in DOMAIN postings.lists
      THEN Some(postings.lists[token_id + 1]) ELSE None

\* MmapPostingsEnum::posting_len
posting_len(postings, token_id) ==
    LET reader == postings_get(postings, token_id)
    IN  IF reader = None THEN None ELSE Some(Len(reader[1]))

\* PostingListView::visitor().contains
visitor_contains(posting, point_id) ==
    \E i \in 1..Len(posting) : posting[i].id = point_id

\* the positions a positional posting stores for a document
posting_positions(posting, point_id) ==
    IF visitor_contains(posting, point_id)
      THEN (CHOOSE e \in {posting[i] : i \in 1..Len(posting)} : e.id = point_id).positions
      ELSE {}

SetMin(S) == CHOOSE x \in S : \A y \in S : x <= y

\* leap-frog intersection: one cursor per list; emit when all cursors agree,
\* else advance the cursor with the smallest value
RECURSIVE leapfrog(_, _)
leapfrog(lists, cursors) ==
    IF \E i \in DOMAIN lists : cursors[i] > Len(lists[i]) THEN <<>>
    ELSE LET heads == [i \in DOMAIN lists |-> lists[i][cursors[i]].id]
             smallest == SetMin({heads[i] : i \in DOMAIN lists})
         IN  IF \A i \in DOMAIN lists : heads[i] = smallest
               THEN <<smallest>>
                    \o leapfrog(lists, [i \in DOMAIN lists |-> cursors[i] + 1])
               ELSE LET k == CHOOSE i \in DOMAIN lists : heads[i] = smallest
                    IN  leapfrog(lists, [cursors EXCEPT ![k] = @ + 1])

\* intersect_compressed_postings_iterator: the point ids present in all the
\* posting lists, in ascending order, that pass the filter
\* (the filter closure is the function point id -> BOOLEAN it computes)
intersect_compressed_postings_iterator(posting_readers, filter_fn) ==
    LET passes(idx) == filter_fn[idx]
    IN  SelectSeq(leapfrog(posting_readers, [i \in DOMAIN posting_readers |-> 1]),
                  passes)

\* the distinct tokens of a document, ascending (Document::to_token_set)
RECURSIVE sorted_seq(_)
sorted_seq(S) ==
    IF S = {} THEN <<>> ELSE <<SetMin(S)>> \o sorted_seq(S \ {SetMin(S)})

to_token_set(phrase) == sorted_seq(doc_tokens(phrase))

\* the tokens of the phrase occur consecutively in the document: shift the
\* positions of the i-th token (0-based) left by i and intersect
phrase_in_document(phrase, point_id, postings) ==
    LET get(token_id) == postings_get(postings, token_id)
        shifted(i) ==
            {pos - (i - 1) :
                pos \in {q \in posting_positions(get(phrase[i])[1], point_id) :
                            q >= i - 1}}
    IN  /\ \A i \in 1..Len(phrase) : visitor_contains(get(phrase[i])[1], point_id)
        /\ \E start \in shifted(1) : \A i \in 1..Len(phrase) : start \in shifted(i)

\* intersect_compressed_postings_phrase_iterator (the token_to_posting
\* closure is postings.get on the given store)
intersect_compressed_postings_phrase_iterator(phrase, postings, is_active_fn) ==
    LET tokens == to_token_set(phrase)
        get(token_id) == postings_get(postings, token_id)
        in_phrase(point_id) == phrase_in_document(phrase, point_id, postings)
    IN  IF \E i \in 1..Len(tokens) : get(tokens[i]) = None THEN <<>>
        ELSE IF tokens = <<>> THEN <<>>
        ELSE SelectSeq(
               intersect_compressed_postings_iterator(
                   [i \in 1..Len(tokens) |-> get(tokens[i])[1]], is_active_fn),
               in_phrase)

\* check_compressed_postings_phrase
check_compressed_postings_phrase(phrase, point_id, postings) ==
    LET tokens == to_token_set(phrase)
        get(token_id) == postings_get(postings, token_id)
    IN  IF \E i \in 1..Len(tokens) : get(tokens[i]) = None THEN FALSE
        ELSE IF tokens = <<>> THEN FALSE
        ELSE phrase_in_document(phrase, point_id, postings)

(***************************************************************************)
(* Readers of MmapInvertedIndex.                                           *)
(***************************************************************************)
\* a token-set query holds ascending distinct token ids; a phrase query is
\* any sequence of token ids
TokenSets == {sorted_seq(S) : S \in SUBSET QueryTokenIds}
Phrases ==
    UNION {[1..n -> QueryTokenIds] : n \in 0..Len(Vocabulary)}
        \cup {<<0, 1, 0>>, <<1, 0, 1>>}
ParsedQueries ==
    {[kind |-> "Tokens", tokens |-> ts] : ts \in TokenSets} \cup
    {[kind |-> "Phrase", tokens |-> ph] : ph \in Phrases}

\* Returns whether the point id is valid and active.
is_active(point_id) ==
    IF storage = None THEN FALSE
    ELSE LET is_deleted == unwrap_or(deleted_get(storage[1].deleted_points, point_id), TRUE)
         IN  ~is_deleted

\* mutant: a point that is not in the token-count slice is not empty
values_is_empty_missing_nonempty(point_id) ==
    IF storage = None THEN TRUE
    ELSE IF unwrap_or(deleted_get(storage[1].deleted_points, point_id), TRUE) THEN TRUE
    ELSE LET count == slice_get(storage[1].point_to_tokens_count, point_id)
         IN  IF count = None THEN FALSE ELSE count[1] = 0

values_is_empty(point_id) ==
    IF storage = None THEN TRUE
    ELSE IF unwrap_or(deleted_get(storage[1].deleted_points, point_id), TRUE) THEN TRUE
    ELSE LET count == slice_get(storage[1].point_to_tokens_count, point_id)
         IN  IF count = None THEN TRUE ELSE count[1] = 0

values_count(point_id) ==
    IF storage = None THEN 0
    ELSE IF unwrap_or(deleted_get(storage[1].deleted_points, point_id), TRUE) THEN 0
    ELSE unwrap_or(slice_get(storage[1].point_to_tokens_count, point_id), 0)

points_count == active_points_count

get_token_id(token) ==
    IF storage = None THEN None
    ELSE IF token \in DOMAIN storage[1].vocab
           THEN Some(storage[1].vocab[token]) ELSE None

get_posting_len(token_id) ==
    IF storage = None THEN None
    ELSE posting_len(storage[1].postings, token_id)

\* mutant: the intersection is not filtered by is_active
filter_has_subset_unfiltered(tokens) ==
    IF storage = None THEN <<>>
    ELSE LET postings == storage[1].postings
             postings_opt == [i \in 1..Len(tokens) |-> postings_get(postings, tokens[i])]
             any == [idx \in PointIds |-> TRUE]
         IN  IF \E i \in 1..Len(tokens) : postings_opt[i] = None
               THEN <<>>
             ELSE IF Len(tokens) = 0
               THEN <<>>
             ELSE intersect_compressed_postings_iterator(
                      [i \in 1..Len(tokens) |-> postings_opt[i][1]], any)

\* mutant: the posting lists of the tokens are chained one after the other
\* instead of intersected
RECURSIVE chain_readers(_, _)
chain_readers(readers, i) ==
    IF i > Len(readers) THEN <<>>
    ELSE [j \in 1..Len(readers[i]) |-> readers[i][j].id] \o chain_readers(readers, i + 1)

filter_has_subset_chained(tokens) ==
    IF storage = None THEN <<>>
    ELSE LET postings == storage[1].postings
             postings_opt == [i \in 1..Len(tokens) |-> postings_get(postings, tokens[i])]
         IN  IF \E i \in 1..Len(tokens) : postings_opt[i] = None
               THEN <<>>
             ELSE IF Len(tokens) = 0
               THEN <<>>
             ELSE SelectSeq(
                      chain_readers([i \in 1..Len(tokens) |-> postings_opt[i][1]], 1),
                      is_active)

\* mutant: the tokens the posting store does not know are left out of the
\* intersection
filter_has_subset_skips_unknown(tokens) ==
    IF storage = None THEN <<>>
    ELSE LET postings == storage[1].postings
             known(token) == postings_get(postings, token) # None
             seen == SelectSeq(tokens, known)
             filter_fn == [idx \in PointIds |-> is_active(idx)]
         IN  IF Len(seen) = 0
               THEN <<>>
             ELSE intersect_compressed_postings_iterator(
                      [i \in 1..Len(seen) |-> postings_get(postings, seen[i])[1]],
                      filter_fn)

\* Iterate over point ids whose documents contain all given tokens
filter_has_subset(tokens) ==
    IF storage = None THEN <<>>
    ELSE LET postings == storage[1].postings
             postings_opt == [i \in 1..Len(tokens) |-> postings_get(postings, tokens[i])]
             filter_fn == [idx \in PointIds |-> is_active(idx)]
         IN  IF \E i \in 1..Len(tokens) : postings_opt[i] = None
               THEN <<>>   \* There are unseen tokens -> no matches
             ELSE IF Len(tokens) = 0
               THEN <<>>   \* Empty request -> no matches
             ELSE intersect_compressed_postings_iterator(
                      [i \in 1..Len(tokens) |-> postings_opt[i][1]], filter_fn)

\* check_intersection: all() over the query tokens in order, stopping at the
\* first token whose posting does not hold the point; the unwrap of an
\* unknown token panics
RECURSIVE check_intersection(_, _, _, _)
check_intersection(postings, tokens, point_id, i) ==
    IF i > Len(tokens) THEN Ok(TRUE)
    ELSE LET reader == postings_get(postings, tokens[i])
         IN  IF reader = None THEN Panic
             ELSE IF ~visitor_contains(reader[1], point_id) THEN Ok(FALSE)
             ELSE check_intersection(postings, tokens, point_id, i + 1)

check_has_subset(tokens, point_id) ==
    IF storage = None THEN Ok(FALSE)
    ELSE IF Len(tokens) = 0 THEN Ok(FALSE)
    ELSE IF values_is_empty(point_id) THEN Ok(FALSE)
    ELSE check_intersection(storage[1].postings, tokens, point_id, 1)

\* mutant: the phrase matches are not filtered by is_active
filter_has_phrase_unfiltered(phrase) ==
    IF storage = None THEN <<>>
    ELSE LET postings == storage[1].postings
             any == [idx \in PointIds |-> TRUE]
         IN  IF postings.variant = "WithPositions"
               THEN intersect_compressed_postings_phrase_iterator(phrase, postings, any)
               ELSE <<>>

\* Iterate over point ids whose documents contain all given tokens in the
\* same order they are provided
filter_has_phrase(phrase) ==
    IF storage = None THEN <<>>
    ELSE LET postings == storage[1].postings
             is_active_fn == [idx \in PointIds |-> is_active(idx)]
         IN  IF postings.variant = "WithPositions"
               THEN intersect_compressed_postings_phrase_iterator(
                        phrase, postings, is_active_fn)
               ELSE <<>>

\* mutant: no check that the point is active
check_has_phrase_unchecked(phrase, point_id) ==
    IF storage = None THEN FALSE
    ELSE LET postings == storage[1].postings
         IN  IF postings.variant = "WithPositions"
               THEN check_compressed_postings_phrase(phrase, point_id, postings)
               ELSE FALSE

check_has_phrase(phrase, point_id) ==
    IF storage = None THEN FALSE
    ELSE IF ~is_active(point_id) THEN FALSE
    ELSE LET postings == storage[1].postings
         IN  IF postings.variant = "WithPositions"
               THEN check_compressed_postings_phrase(phrase, point_id, postings)
               ELSE FALSE

filter(query) ==
    IF query.kind = "Tokens"
      THEN filter_has_subset(query.tokens)
      ELSE filter_has_phrase(query.tokens)

check_match(parsed_query, point_id) ==
    IF parsed_query.kind = "Tokens"
      THEN check_has_subset(parsed_query.tokens, point_id)
      ELSE Ok(check_has_phrase(parsed_query.tokens, point_id))

(***************************************************************************)
(* The mutating methods.                                                   *)
(***************************************************************************)
\* the outcome of a remove that changes nothing
remove_unchanged(ret) ==
    [ret |-> ret, storage |-> storage, active_points_count |-> active_points_count]

\* the outcome of a remove that returns true: whether it sets the bit of
\* idx, zeroes the slot of idx and decrements the counter
remove_tombstoned(idx, set_bit, zero_slot, decrement) ==
    LET with_bit == IF set_bit
                      THEN [storage[1] EXCEPT
                               !.deleted_points = deleted_set(@, idx, TRUE)]
                      ELSE storage[1]
        with_slot == IF zero_slot
                       THEN [with_bit EXCEPT !.point_to_tokens_count[idx] = 0]
                       ELSE with_bit
    IN  [ret |-> TRUE, storage |-> Some(with_slot),
         active_points_count |->
            IF decrement THEN active_points_count - 1 ELSE active_points_count]

\* mutant: the counter is decremented also for an id past the token-count slice
remove_always_decrements(idx) ==
    IF storage = None THEN remove_unchanged(FALSE)
    ELSE LET is_deleted == deleted_get(storage[1].deleted_points, idx)
             in_slice == slice_get(storage[1].point_to_tokens_count, idx) # None
         IN  IF is_deleted = None THEN remove_unchanged(FALSE)
             ELSE IF is_deleted[1] THEN remove_unchanged(FALSE)
             ELSE remove_tombstoned(idx, TRUE, in_slice, TRUE)

\* mutant: the tombstone bit is not set
remove_without_tombstone(idx) ==
    IF storage = None THEN remove_unchanged(FALSE)
    ELSE LET is_deleted == deleted_get(storage[1].deleted_points, idx)
             in_slice == slice_get(storage[1].point_to_tokens_count, idx) # None
         IN  IF is_deleted = None THEN remove_unchanged(FALSE)
             ELSE IF is_deleted[1] THEN remove_unchanged(FALSE)
             ELSE remove_tombstoned(idx, FALSE, in_slice, in_slice)

\* mutant: no check that the point is already removed
remove_without_deleted_check(idx) ==
    IF storage = None THEN remove_unchanged(FALSE)
    ELSE LET is_deleted == deleted_get(storage[1].deleted_points, idx)
             in_slice == slice_get(storage[1].point_to_tokens_count, idx) # None
         IN  IF is_deleted = None THEN remove_unchanged(FALSE)
             ELSE remove_tombstoned(idx, TRUE, in_slice, in_slice)

\* mutant: the token-count slot is not zeroed
remove_keeps_count(idx) ==
    IF storage = None THEN remove_unchanged(FALSE)
    ELSE LET is_deleted == deleted_get(storage[1].deleted_points, idx)
             in_slice == slice_get(storage[1].point_to_tokens_count, idx) # None
         IN  IF is_deleted = None THEN remove_unchanged(FALSE)
             ELSE IF is_deleted[1] THEN remove_unchanged(FALSE)
             ELSE remove_tombstoned(idx, TRUE, FALSE, in_slice)

\* mutant: true is returned when storage is absent
remove_absent_true(idx) ==
    IF storage = None THEN remove_unchanged(TRUE)
    ELSE LET is_deleted == deleted_get(storage[1].deleted_points, idx)
             in_slice == slice_get(storage[1].point_to_tokens_count, idx) # None
         IN  IF is_deleted = None THEN remove_unchanged(FALSE)
             ELSE IF is_deleted[1] THEN remove_unchanged(FALSE)
             ELSE remove_tombstoned(idx, TRUE, in_slice, in_slice)

\* remove: what it returns and the state it leaves
remove(idx) ==
    IF storage = None
      THEN [ret |-> FALSE, storage |-> storage,
            active_points_count |-> active_points_count]
    ELSE LET is_deleted == deleted_get(storage[1].deleted_points, idx)
         IN  IF is_deleted = None   \* Never existed
               THEN [ret |-> FALSE, storage |-> storage,
                     active_points_count |-> active_points_count]
             ELSE IF is_deleted[1]  \* Already removed
               THEN [ret |-> FALSE, storage |-> storage,
                     active_points_count |-> active_points_count]
             ELSE LET set_storage ==
                          [storage[1] EXCEPT
                              !.deleted_points = deleted_set(@, idx, TRUE)]
                  IN  IF slice_get(storage[1].point_to_tokens_count, idx) # None
                        THEN [ret |-> TRUE,
                              storage |-> Some([set_storage EXCEPT
                                             !.point_to_tokens_count[idx] = 0]),
                              active_points_count |-> active_points_count - 1]
                        ELSE [ret |-> TRUE, storage |-> Some(set_storage),
                              active_points_count |-> active_points_count]

Remove(idx) ==
    LET r == remove(idx)
    IN  /\ storage' = r.storage
        /\ active_points_count' = r.active_points_count
        /\ lastOp' = [op |-> "remove", idx |-> idx, ret |-> r.ret, ok |-> TRUE]
        /\ UNCHANGED <<calls, geo_vars, boundary_vars>>

\* mutant: the flusher drops the pending updates without writing them
flusher_drops_pending ==
    IF storage = None THEN storage
    ELSE Some([storage[1] EXCEPT
                  !.deleted_points.pending_updates = [i \in {} |-> TRUE]])

\* flusher: flushes the buffered bitset when storage is present
flusher ==
    IF storage = None THEN storage
    ELSE Some([storage[1] EXCEPT !.deleted_points = deleted_flush(@)])

Flush ==
    /\ storage' = flusher
    /\ lastOp' = [op |-> "flush", idx |-> 0, ret |-> FALSE, ok |-> TRUE]
    /\ UNCHANGED <<active_points_count, calls, geo_vars, boundary_vars>>

\* the outcome of a call that returns Err(service_error) and writes nothing
rejected ==
    [ok |-> FALSE, storage |-> storage, active_points_count |-> active_points_count]

\* mutant: the token count of the point is stored and Ok(()) is returned
index_tokens_accepts(idx, tokens) ==
    IF storage # None /\ idx \in DOMAIN storage[1].point_to_tokens_count
      THEN [ok |-> TRUE,
            storage |-> Some([storage[1] EXCEPT
                                 !.point_to_tokens_count[idx] = Len(tokens)]),
            active_points_count |-> active_points_count]
      ELSE [ok |-> TRUE, storage |-> storage,
            active_points_count |-> active_points_count]

\* index_tokens: Err, whatever the arguments
index_tokens(idx, tokens) == rejected

\* index_document: Err, whatever the arguments
index_document(idx, document) == rejected

IndexTokens ==
    \E idx \in PointIds : \E tokens \in TokenSets :
        LET r == index_tokens(idx, tokens)
        IN  /\ storage' = r.storage
            /\ active_points_count' = r.active_points_count
            /\ lastOp' = [op |-> "index_tokens", idx |-> 0, ret |-> FALSE, ok |-> r.ok]
            /\ UNCHANGED <<calls, geo_vars, boundary_vars>>

IndexDocument ==
    \E idx \in PointIds : \E document \in Documents :
        LET r == index_document(idx, document)
        IN  /\ storage' = r.storage
            /\ active_points_count' = r.active_points_count
            /\ lastOp' = [op |-> "index_document", idx |-> 0, ret |-> FALSE, ok |-> r.ok]
            /\ UNCHANGED <<calls, geo_vars, boundary_vars>>

Init ==
    \E d \in Directories :
        LET index == open(d.dir, d.has_positions)
        IN  /\ storage = index.storage
            /\ active_points_count = index.active_points_count
            /\ lastOp = [op |-> "open", idx |-> 0, ret |-> FALSE, ok |-> TRUE]
            /\ calls = NoCalls
            /\ dynamic_index = None
            /\ geo_storage = None
            /\ deleted_count = 0
            /\ NoBoundary

Next ==
    \/ \E idx \in PointIds : Remove(idx)
    \/ Flush
    \/ IndexTokens
    \/ IndexDocument

Spec == Init /\ [][Next]_vars

(***************************************************************************)
(* The geo index.  A GeoHash is the sequence of its characters (as digits) *)
(* and a GeoPoint is identified with the hash it encodes to.               *)
(***************************************************************************)
GeoHashChars == {0, 1}

\* the hashes calls are made with: every prefix length up to the longest
\* stored hash, the empty hash included
GeoHashes == UNION {[1..n -> GeoHashChars] : n \in 0..2}

\* the geo values a point of the snapshot may hold
PointValues ==
    { <<>>, << <<1, 0>> >>, << <<1, 0>>, <<1, 1>> >>, << <<1, 0>>, <<1, 0>> >>,
      << <<1>> >>, << <<0, 1>>, <<1, 0>> >> }

\* GeoHash::cmp: lexicographic
hash_cmp(a, b) ==
    LET n == IF Len(a) < Len(b) THEN Len(a) ELSE Len(b)
        diff == {i \in 1..n : a[i] # b[i]}
    IN  IF diff = {}
          THEN IF Len(a) < Len(b) THEN "Less"
               ELSE IF Len(a) = Len(b) THEN "Equal" ELSE "Greater"
          ELSE IF a[SetMin(diff)] < b[SetMin(diff)] THEN "Less" ELSE "Greater"

\* GeoHash::starts_with
starts_with(hash, prefix) ==
    /\ Len(prefix) <= Len(hash)
    /\ SubSeq(hash, 1, Len(prefix)) = prefix

\* GeoHash::truncate for every length: the hash itself and its ancestors
hash_prefixes(hash) == {SubSeq(hash, 1, i) : i \in 0..Len(hash)}

\* the keys of a BTreeMap<GeoHash, _> in iteration order
RECURSIVE sorted_hashes(_)
sorted_hashes(S) ==
    IF S = {} THEN <<>>
    ELSE LET least == CHOOSE h \in S : \A g \in S : hash_cmp(h, g) # "Greater"
         IN  <<least>> \o sorted_hashes(S \ {least})

geo_hashes_of(values) == {values[i] : i \in 1..Len(values)}

\* InMemoryGeoMapIndex after the points were added: points_map keyed by
\* the hashes of the values; the two count maps keyed by those hashes and
\* all their ancestors
InMemoryGeoMapIndex(point_to_values) ==
    LET ids == DOMAIN point_to_values
        all_hashes == UNION {geo_hashes_of(point_to_values[p]) : p \in ids}
        all_prefixes == UNION {hash_prefixes(h) : h \in all_hashes}
        under(p, h) == {i \in 1..Len(point_to_values[p]) :
                           starts_with(point_to_values[p][i], h)}
    IN  [point_to_values |-> point_to_values,
         points_map |-> [h \in all_hashes |->
                            {p \in ids : h \in geo_hashes_of(point_to_values[p])}],
         points_per_hash |-> [h \in all_prefixes |->
                                 Cardinality({p \in ids : under(p, h) # {}})],
         values_per_hash |-> [h \in all_prefixes |->
                                 Cardinality(UNION {{<<p, i>> : i \in under(p, h)} :
                                                       p \in ids})]]

GeoSnapshots ==
    { InMemoryGeoMapIndex(ptv) :
        ptv \in UNION {[0..(n - 1) -> PointValues] : n \in 0..MaxPoints} }

\* the slots of a new file are zero-filled: the record of all-zero bytes
ZeroCounts == [hash |-> <<>>, points |-> 0, values |-> 0]

\* MmapGeoMapIndex::build, the files it writes.  points_map and
\* points_map_ids follow the iteration order of the in-memory points_map;
\* counts_per_hash has min(len, len) slots, and the entries of
\* points_per_hash are zipped with the slots: a slot is written when
\* values_per_hash holds the hash of its entry
MmapGeoMapIndex_build(index) ==
    LET map_hashes == sorted_hashes(DOMAIN index.points_map)
        ids_of(i) == sorted_seq(index.points_map[map_hashes[i]])
        ids_offset(i) ==
            Cardinality(UNION {{<<j, k>> : k \in 1..Len(ids_of(j))} : j \in 1..(i - 1)})
        total == ids_offset(Len(map_hashes) + 1)
        points_map ==
            [i \in 1..Len(map_hashes) |->
                [hash |-> map_hashes[i],
                 ids_start |-> ids_offset(i),
                 ids_end |-> ids_offset(i) + Len(ids_of(i))]]
        points_map_ids ==
            [k \in 1..total |->
                LET i == CHOOSE i \in 1..Len(map_hashes) :
                             ids_offset(i) < k /\ k <= ids_offset(i) + Len(ids_of(i))
                IN  ids_of(i)[k - ids_offset(i)]]
        points_hashes == sorted_hashes(DOMAIN index.points_per_hash)
        points_len == Len(points_hashes)
        values_len == Cardinality(DOMAIN index.values_per_hash)
        counts_len == IF points_len < values_len THEN points_len ELSE values_len
        counts_per_hash ==
            [i \in 1..counts_len |->
                LET hash == points_hashes[i]
                IN  IF hash \in DOMAIN index.values_per_hash
                      THEN [hash |-> hash,
                            points |-> index.points_per_hash[hash],
                            values |-> index.values_per_hash[hash]]
                      ELSE ZeroCounts]
        deleted_flags_count == Cardinality(DOMAIN index.point_to_values)
        deleted_bitflags ==
            [idx \in DOMAIN index.point_to_values |-> index.point_to_values[idx] = <<>>]
    IN  Some([point_to_values |-> index.point_to_values,
              points_map |-> points_map,
              points_map_ids |-> points_map_ids,
              counts_per_hash |-> counts_per_hash,
              deleted |-> MmapBitSlice_create(deleted_bitflags, deleted_flags_count)])

\* MmapGeoMapIndex::open: no stats file, no index; else the files and the
\* number of set bits of the deletion bitset
MmapGeoMapIndex_open(dir) ==
    IF dir = None
      THEN [storage |-> None, deleted_count |-> 0]
      ELSE LET files == dir[1]
               deleted == files.deleted
           IN  [storage |->
                  Some([counts_per_hash |-> files.counts_per_hash,
                        points_map |-> files.points_map,
                        points_map_ids |-> files.points_map_ids,
                        point_to_values |-> files.point_to_values,
                        deleted |-> BufferedUpdateWrapper_new(deleted)]),
                deleted_count |-> count_ones(deleted)]

\* slice::binary_search_by on records with a hash field: the 0-based index
\* of the record with the hash when found, else the index to insert it at
RECURSIVE binary_search_loop(_, _, _, _)
binary_search_loop(slice, hash, base, size) ==
    IF size > 1
      THEN LET half == size \div 2
               mid == base + half
           IN  binary_search_loop(
                   slice, hash,
                   IF hash_cmp(slice[mid + 1].hash, hash) = "Greater" THEN base ELSE mid,
                   size - half)
      ELSE LET cmp == hash_cmp(slice[base + 1].hash, hash)
           IN  IF cmp = "Equal" THEN [found |-> TRUE, index |-> base]
               ELSE [found |-> FALSE,
                     index |-> IF cmp = "Less" THEN base + 1 ELSE base]

binary_search_by_hash(slice, hash) ==
    IF Len(slice) = 0 THEN [found |-> FALSE, index |-> 0]
    ELSE binary_search_loop(slice, hash, 0, Len(slice))

\* MmapPointToValues
point_to_values_check_values_any(point_to_values, idx, check_fn) ==
    /\ idx \in DOMAIN point_to_values
    /\ \E i \in 1..Len(point_to_values[idx]) : check_fn[point_to_values[idx][i]]

point_to_values_get_values_count(point_to_values, idx) ==
    IF idx \in DOMAIN point_to_values
      THEN Some(Len(point_to_values[idx])) ELSE None

(***************************************************************************)
(* Readers of MmapGeoMapIndex.                                             *)
(***************************************************************************)
\* the predicates check_values_any is called with: "the value lies under
\* the prefix g" for every g (the empty prefix gives the predicate that holds
\* of every value, the weakest one), and the predicate that never holds
CheckFns ==
    {[v \in GeoHashes |-> starts_with(v, g)] : g \in GeoHashes}
        \cup {[v \in GeoHashes |-> FALSE]}

\* the readers take the storage field of the index they are called on
\* (self.storage) as their first parameter; the operators without it read
\* the current state
check_values_any_of(self_storage, idx, check_fn) ==
    IF self_storage = None THEN FALSE
    ELSE LET deleted == deleted_get(self_storage[1].deleted, idx)
         IN  IF deleted = None THEN FALSE
             ELSE IF deleted[1] THEN FALSE
             ELSE point_to_values_check_values_any(
                      self_storage[1].point_to_values, idx, check_fn)

check_values_any(idx, check_fn) == check_values_any_of(geo_storage, idx, check_fn)

geo_values_count_of(self_storage, idx) ==
    IF self_storage = None THEN 0
    ELSE LET deleted == deleted_get(self_storage[1].deleted, idx)
         IN  IF deleted = None THEN 0
             ELSE IF deleted[1] THEN 0
             ELSE unwrap_or(point_to_values_get_values_count(
                                self_storage[1].point_to_values, idx), 0)

geo_values_count(idx) == geo_values_count_of(geo_storage, idx)

\* mutant: the values count of the record is returned
points_of_hash_values(hash) ==
    IF geo_storage = None THEN 0
    ELSE LET found == binary_search_by_hash(geo_storage[1].counts_per_hash, hash)
         IN  IF found.found
               THEN geo_storage[1].counts_per_hash[found.index + 1].values
               ELSE 0

points_of_hash(hash) ==
    IF geo_storage = None THEN 0
    ELSE LET found == binary_search_by_hash(geo_storage[1].counts_per_hash, hash)
         IN  IF found.found
               THEN geo_storage[1].counts_per_hash[found.index + 1].points
               ELSE 0

values_of_hash(hash) ==
    IF geo_storage = None THEN 0
    ELSE LET found == binary_search_by_hash(geo_storage[1].counts_per_hash, hash)
         IN  IF found.found
               THEN geo_storage[1].counts_per_hash[found.index + 1].values
               ELSE 0

\* take_while(|point_key_value| point_key_value.hash.starts_with(geohash))
RECURSIVE take_while_starts_with(_, _)
take_while_starts_with(entries, geohash) ==
    IF entries = <<>> THEN <<>>
    ELSE IF ~starts_with(Head(entries).hash, geohash) THEN <<>>
    ELSE <<Head(entries)>> \o take_while_starts_with(Tail(entries), geohash)

\* filter_map + flatten: the ids of the range of every entry (an entry whose
\* range is not inside points_map_ids is skipped), without the deleted ids
\* when skip_deleted
RECURSIVE flatten_ids(_, _, _)
flatten_ids(st, entries, skip_deleted) ==
    IF entries = <<>> THEN <<>>
    ELSE LET e == Head(entries)
             kept(idx) == ~skip_deleted \/ ~unwrap_or(deleted_get(st.deleted, idx), TRUE)
             ids == IF e.ids_start <= e.ids_end /\ e.ids_end <= Len(st.points_map_ids)
                      THEN SelectSeq(SubSeq(st.points_map_ids, e.ids_start + 1, e.ids_end),
                                     kept)
                      ELSE <<>>
         IN  ids \o flatten_ids(st, Tail(entries), skip_deleted)

\* the entries of points_map from the lower bound of the hash on
points_map_from(st, geohash) ==
    LET start_index == binary_search_by_hash(st.points_map, geohash).index
    IN  SubSeq(st.points_map, start_index + 1, Len(st.points_map))

\* mutant: the scan does not stop at the first entry outside the prefix
stored_sub_regions_whole_tail(self_storage, geohash) ==
    IF self_storage = None THEN <<>>
    ELSE flatten_ids(self_storage[1], points_map_from(self_storage[1], geohash), TRUE)

\* mutant: the scan starts one entry after the lower bound
stored_sub_regions_skips_first(self_storage, geohash) ==
    IF self_storage = None THEN <<>>
    ELSE LET from == points_map_from(self_storage[1], geohash)
         IN  flatten_ids(self_storage[1],
                         take_while_starts_with(
                             IF from = <<>> THEN <<>> ELSE Tail(from), geohash),
                         TRUE)

\* mutant: the deleted ids are not skipped
stored_sub_regions_unfiltered(self_storage, geohash) ==
    IF self_storage = None THEN <<>>
    ELSE flatten_ids(self_storage[1],
                     take_while_starts_with(
                         points_map_from(self_storage[1], geohash), geohash),
                     FALSE)

\* Returns an iterator over all point IDs which have the `geohash` prefix.
\* Note. Point ID may be repeated multiple times in the iterator.
stored_sub_regions_of(self_storage, geohash) ==
    IF self_storage = None THEN <<>>
    ELSE flatten_ids(self_storage[1],
                     take_while_starts_with(
                         points_map_from(self_storage[1], geohash), geohash),
                     TRUE)

stored_sub_regions(geohash) == stored_sub_regions_of(geo_storage, geohash)

(***************************************************************************)
(* The mutating methods of MmapGeoMapIndex.                                *)
(***************************************************************************)
\* mutant: deleted_count is incremented also when the bit is already set
remove_point_always_increments(idx) ==
    IF geo_storage = None
      THEN [storage |-> geo_storage, deleted_count |-> deleted_count]
    ELSE LET deleted == deleted_get(geo_storage[1].deleted, idx)
         IN  IF deleted = None
               THEN [storage |-> geo_storage, deleted_count |-> deleted_count]
             ELSE [storage |-> Some([geo_storage[1] EXCEPT
                                        !.deleted = deleted_set(@, idx, TRUE)]),
                   deleted_count |-> deleted_count + 1]

\* mutant: the ids of the removed point are also erased from points_map_ids
remove_point_erases_ids(idx) ==
    IF geo_storage = None
      THEN [storage |-> geo_storage, deleted_count |-> deleted_count]
    ELSE LET deleted == deleted_get(geo_storage[1].deleted, idx)
             other(id) == id # idx
         IN  IF deleted = None
               THEN [storage |-> geo_storage, deleted_count |-> deleted_count]
             ELSE IF deleted[1]
               THEN [storage |-> geo_storage, deleted_count |-> deleted_count]
             ELSE [storage |-> Some([geo_storage[1] EXCEPT
                                        !.deleted = deleted_set(@, idx, TRUE),
                                        !.points_map_ids = SelectSeq(@, other)]),
                   deleted_count |-> deleted_count + 1]

\* remove_point: the state it leaves
remove_point(idx) ==
    IF geo_storage = None
      THEN [storage |-> geo_storage, deleted_count |-> deleted_count]
    ELSE LET deleted == deleted_get(geo_storage[1].deleted, idx)
         IN  IF deleted = None
               THEN [storage |-> geo_storage, deleted_count |-> deleted_count]
             ELSE IF deleted[1]
               THEN [storage |-> geo_storage, deleted_count |-> deleted_count]
             ELSE [storage |-> Some([geo_storage[1] EXCEPT
                                        !.deleted = deleted_set(@, idx, TRUE)]),
                   deleted_count |-> deleted_count + 1]

RemovePoint(idx) ==
    LET r == remove_point(idx)
    IN  /\ geo_storage' = r.storage
        /\ deleted_count' = r.deleted_count
        /\ lastOp' = [op |-> "remove_point", idx |-> idx, ret |-> FALSE, ok |-> TRUE]
        /\ UNCHANGED <<storage, active_points_count, calls, dynamic_index, boundary_vars>>

\* flusher of the geo index: flushes the buffered bitset when storage is
\* present
geo_flusher ==
    IF geo_storage = None THEN geo_storage
    ELSE Some([geo_storage[1] EXCEPT !.deleted = deleted_flush(@)])

GeoFlush ==
    /\ geo_storage' = geo_flusher
    /\ lastOp' = [op |-> "geo_flush", idx |-> 0, ret |-> FALSE, ok |-> TRUE]
    /\ UNCHANGED <<storage, active_points_count, calls, dynamic_index, deleted_count, boundary_vars>>

\* the geo index built from a snapshot and opened; no inverted index
GeoInit ==
    \E index \in GeoSnapshots :
        LET opened == MmapGeoMapIndex_open(MmapGeoMapIndex_build(index))
        IN  /\ dynamic_index = Some(index)
            /\ geo_storage = opened.storage
            /\ deleted_count = opened.deleted_count
            /\ lastOp = [op |-> "build", idx |-> 0, ret |-> FALSE, ok |-> TRUE]
            /\ storage = None
            /\ active_points_count = 0
            /\ calls = NoCalls
            /\ NoBoundary

GeoNext ==
    \/ \E idx \in PointIds : RemovePoint(idx)
    \/ GeoFlush

GeoSpec == GeoInit /\ [][GeoNext]_vars

(***************************************************************************)
(* Properties.                                                             *)
(***************************************************************************)
Range(seq) == {seq[i] : i \in 1..Len(seq)}

TokensQuery(ts) == [kind |-> "Tokens", tokens |-> ts]
PhraseQuery(ph) == [kind |-> "Phrase", tokens |-> ph]

\* the point ids inside the token-count slice
InTokenCountSlice(p) ==
    storage # None /\ p \in DOMAIN storage[1].point_to_tokens_count

\* the point ids inside the deletion bitset
InBitset(p) == storage # None /\ p < storage[1].deleted_points.len

\* p is in the posting list of some token
InSomePosting(p) ==
    /\ storage # None
    /\ \E i \in 1..Len(storage[1].postings.lists) :
          visitor_contains(storage[1].postings.lists[i], p)

\* the tombstone of p is in the overlay and not yet in the file
TombstonePending(p) ==
    /\ InBitset(p)
    /\ p \in DOMAIN storage[1].deleted_points.pending_updates
    /\ ~storage[1].deleted_points.bitslice[p]

\* every reader sees p as tombstoned
TombstoneVisible(p) ==
    /\ ~is_active(p)
    /\ values_is_empty(p)
    /\ values_count(p) = 0
    /\ \A q \in ParsedQueries :
          /\ p \notin Range(filter(q))
          /\ check_match(q, p) = Ok(FALSE)

\* C1: tombstone monotonicity: a point id that is not active is not active
\* in the next state either, whatever the step.
C1_TombstoneMonotonic ==
    [][\A p \in PointIds : ~is_active(p) => ~is_active(p)']_vars

\* a point of a posting list was tombstoned by remove, the tombstone has been
\* flushed, and further calls have run since
C1_Witness ==
    /\ lastOp.op = "remove" /\ lastOp.ret
    /\ \E p \in PointIds \ {lastOp.idx} :
          /\ InSomePosting(p)
          /\ ~is_active(p)
          /\ storage[1].deleted_points.bitslice[p]

C3_TokenSetCorrect ==
    \A ts \in TokenSets :
        LET out == Range(filter(TokensQuery(ts)))
        IN  \A p \in PointIds :
                (p \in out)
                    <=> (check_match(TokensQuery(ts), p) = Ok(TRUE) /\ is_active(p))

\* a query matches an active point while a removed point that holds all
\* its tokens is left out
C3_Witness ==
    /\ storage # None
    /\ lastOp.op = "remove" /\ lastOp.ret
    /\ \E ts \in TokenSets : \E p \in PointIds :
          /\ p \in Range(filter(TokensQuery(ts)))
          /\ \A i \in 1..Len(ts) :
                /\ postings_get(storage[1].postings, ts[i]) # None
                /\ visitor_contains(postings_get(storage[1].postings, ts[i])[1],
                                    lastOp.idx)

\* C4: remove visibility: when remove(p) has returned, p is tombstoned; a
\* tombstoned id stays tombstoned in every later state; and every reader
\* sees a tombstoned id as tombstoned, flushed or not.
C4_RemoveVisible ==
    /\ [](lastOp.op = "remove" => ~is_active(lastOp.idx))
    /\ [][\A p \in PointIds : ~is_active(p) => ~is_active(p)']_vars
    /\ [](\A p \in PointIds : ~is_active(p) => TombstoneVisible(p))

\* remove has set the tombstone of a point that is in a posting list, and
\* the tombstone is still only in the overlay (the file bit is 0)
C4_Witness ==
    /\ lastOp.op = "remove" /\ lastOp.ret
    /\ TombstonePending(lastOp.idx)
    /\ InSomePosting(lastOp.idx)

\* C5: the output of filter(Q) is strictly ascending, for token-set and
\* phrase queries.
C5_FilterAscending ==
    \A q \in ParsedQueries :
        LET out == filter(q)
        IN  \A i \in 1..(Len(out) - 1) : out[i] < out[i + 1]

\* a token-set query and a phrase query that both yield several points,
\* after a remove
C5_Witness ==
    /\ lastOp.op = "remove"
    /\ \E ts \in TokenSets : Len(filter(TokensQuery(ts))) >= 2
    /\ \E ph \in Phrases : Len(filter(PhraseQuery(ph))) >= 2

\* C6: phrase implies subset: every point of filter(Phrase P) is a point of
\* filter(TokenSet of the distinct tokens of P).
C6_PhraseImpliesSubset ==
    \A ph \in Phrases :
        Range(filter(PhraseQuery(ph)))
            \subseteq Range(filter(TokensQuery(to_token_set(ph))))

\* a phrase matches one point and not another one that holds all its
\* tokens, after a remove
C6_Witness ==
    \E ph \in Phrases :
        /\ lastOp.op = "remove"
        /\ Range(filter(PhraseQuery(ph))) # {}
        /\ Range(filter(PhraseQuery(ph))) # Range(filter(TokensQuery(to_token_set(ph))))

\* remove(p) would return false and change nothing
RemoveIsNoOp(p) ==
    /\ remove(p).ret = FALSE
    /\ remove(p).storage = storage
    /\ remove(p).active_points_count = active_points_count

\* C7: remove(p) returns true exactly when storage is present, p is inside
\* the bitset and its bit was 0; when it returns false it changes nothing;
\* and once remove(p) has returned, a further remove(p) returns false and
\* changes nothing, in every later state.
C7_RemoveResult ==
    /\ [][lastOp'.op = "remove" =>
            LET p == lastOp'.idx
            IN  /\ lastOp'.ret =
                     (/\ storage # None
                      /\ InBitset(p)
                      /\ deleted_get(storage[1].deleted_points, p) = Some(FALSE))
                /\ ~lastOp'.ret =>
                     /\ storage' = storage
                     /\ active_points_count' = active_points_count]_vars
    /\ [](lastOp.op = "remove" => RemoveIsNoOp(lastOp.idx))
    /\ [][\A p \in PointIds : RemoveIsNoOp(p) => RemoveIsNoOp(p)']_vars

\* a second remove of an id whose first remove set the tombstone
C7_Witness ==
    /\ lastOp.op = "remove" /\ ~lastOp.ret
    /\ TombstonePending(lastOp.idx)

\* C8: a remove that returns true sets the bit of p and nothing else in the
\* bitset; it zeroes the slot of p and decrements active_points_count by 1
\* when p is inside the token-count slice, and leaves the slice and the
\* counter alone when p is past its end.
C8_RemoveEffect ==
    [][(lastOp'.op = "remove" /\ lastOp'.ret) =>
         LET p == lastOp'.idx
             old == storage[1]
             new == storage'[1]
         IN  /\ storage' # None
             /\ deleted_get(new.deleted_points, p) = Some(TRUE)
             /\ \A q \in PointIds \ {p} :
                   deleted_get(new.deleted_points, q) = deleted_get(old.deleted_points, q)
             /\ new.postings = old.postings /\ new.vocab = old.vocab
             /\ IF p \in DOMAIN old.point_to_tokens_count
                  THEN /\ new.point_to_tokens_count =
                            [old.point_to_tokens_count EXCEPT ![p] = 0]
                       /\ active_points_count' = active_points_count - 1
                  ELSE /\ new.point_to_tokens_count = old.point_to_tokens_count
                       /\ active_points_count' = active_points_count]_vars

\* a remove of an id inside the bitset but past the token-count slice has
\* returned true
C8_Witness ==
    /\ lastOp.op = "remove" /\ lastOp.ret
    /\ InBitset(lastOp.idx) /\ ~InTokenCountSlice(lastOp.idx)

\* C9: reader totality: check_match returns a value for every query and
\* every point id, also when a token-set query holds a token id the posting
\* store does not know.
C9_ReaderTotality ==
    \A q \in ParsedQueries : \A p \in PointIds : ~check_match(q, p).panicked

\* C10: in the storage-absent state every reader gives the empty answer and
\* remove returns false, and the state is never left.
C10_EmptyStorage ==
    /\ [](storage = None =>
            /\ points_count = 0
            /\ \A q \in ParsedQueries :
                  /\ filter(q) = <<>>
                  /\ \A p \in PointIds : check_match(q, p) = Ok(FALSE)
            /\ \A t \in TokenStrings : get_token_id(t) = None
            /\ \A t \in QueryTokenIds : get_posting_len(t) = None
            /\ \A p \in PointIds : remove(p).ret = FALSE
            /\ (lastOp.op = "remove" => ~lastOp.ret))
    /\ [][storage = None => storage' = None]_vars

\* remove has been called on the storage-absent index
C10_Witness ==
    storage = None /\ lastOp.op = "remove"

(***************************************************************************)
(* Both indexes: an inverted index or a geo index is open, and the calls   *)
(* of both are made.                                                       *)
(***************************************************************************)
IndexesInit == Init \/ GeoInit

IndexesNext == Next \/ GeoNext

IndexesSpec == IndexesInit /\ [][IndexesNext]_vars

\* the build-once parts of the geo index are the same in the next state
GeoBuildOnceUnchanged ==
    /\ (geo_storage = None) = (geo_storage' = None)
    /\ geo_storage # None =>
          /\ geo_storage'[1].counts_per_hash = geo_storage[1].counts_per_hash
          /\ geo_storage'[1].points_map = geo_storage[1].points_map
          /\ geo_storage'[1].points_map_ids = geo_storage[1].points_map_ids
          /\ geo_storage'[1].point_to_values = geo_storage[1].point_to_values

\* the vocabulary and the posting store are the same in the next state
VocabPostingsUnchanged ==
    /\ (storage = None) = (storage' = None)
    /\ storage # None =>
          /\ storage'[1].vocab = storage[1].vocab
          /\ storage'[1].postings = storage[1].postings

SerializedInit ==
    \E d \in Directories :
        LET index == open(d.dir, d.has_positions)
        IN  /\ storage = index.storage
            /\ active_points_count = index.active_points_count
            /\ lastOp = [op |-> "open", idx |-> 0, ret |-> FALSE, ok |-> TRUE]
            /\ calls = [opened |-> Some(index), removed |-> {}]
            /\ dynamic_index = None
            /\ geo_storage = None
            /\ deleted_count = 0
            /\ NoBoundary

SerializedRemove(idx) ==
    LET r == remove(idx)
    IN  /\ storage' = r.storage
        /\ active_points_count' = r.active_points_count
        /\ lastOp' = [op |-> "remove", idx |-> idx, ret |-> r.ret, ok |-> TRUE]
        /\ calls' = [calls EXCEPT !.removed = @ \cup {idx}]
        /\ UNCHANGED <<geo_vars, boundary_vars>>

SerializedNext ==
    \/ \E idx \in PointIds : SerializedRemove(idx)
    \/ Flush

SerializedSpec == SerializedInit /\ [][SerializedNext]_vars

\* C12: whatever the order (and the number) of the remove calls made so
\* far, the deletion bitset is the OR of the bitset at open and the bits of
\* the removed ids inside it, and active_points_count is the count at open
\* less the removed ids inside the token-count slice whose bit was 0: both
\* are functions of the set of removed ids alone.  After a flush the file
\* holds the same bits.
C12_OrderIndependent ==
    LET opened == calls.opened[1]
    IN  IF opened.storage = None
          THEN storage = None /\ active_points_count = 0
          ELSE LET initial == opened.storage[1].deleted_points
                   slice == opened.storage[1].point_to_tokens_count
               IN  /\ storage # None
                   /\ \A p \in PointIds :
                         deleted_get(storage[1].deleted_points, p) =
                             IF p < initial.len
                               THEN Some(initial.bitslice[p] \/ p \in calls.removed)
                               ELSE None
                   /\ active_points_count =
                         opened.active_points_count
                           - Cardinality({p \in calls.removed :
                                             p \in DOMAIN slice /\ ~initial.bitslice[p]})
                   /\ lastOp.op = "flush" =>
                         \A p \in DOMAIN initial.bitslice :
                             storage[1].deleted_points.bitslice[p] =
                                 (initial.bitslice[p] \/ p \in calls.removed)

\* removes of a point with tokens, of an id past the token-count slice and
\* of an id that was tombstoned at open or is out of range have been made
C12_Witness ==
    /\ lastOp.op = "remove"
    /\ \E p \in calls.removed : InSomePosting(p)
    /\ \E p \in calls.removed : InBitset(p) /\ ~InTokenCountSlice(p)
    /\ \E p \in calls.removed :
          ~InBitset(p) \/ calls.opened[1].storage[1].deleted_points.bitslice[p]

(***************************************************************************)
(* Properties of the geo index.                                            *)
(***************************************************************************)
\* the point ids inside the deletion bitset of the geo index
InGeoBitset(p) == geo_storage # None /\ p < geo_storage[1].deleted.len

\* the bit of p as the geo readers see it (overlay first)
GeoDeleted(p) == deleted_get(geo_storage[1].deleted, p)

\* the tombstone of p is in the overlay and not yet in the file
GeoTombstonePending(p) ==
    /\ InGeoBitset(p)
    /\ p \in DOMAIN geo_storage[1].deleted.pending_updates
    /\ ~geo_storage[1].deleted.bitslice[p]

\* p has geo values in the index
HasGeoValues(p) ==
    /\ geo_storage # None
    /\ p \in DOMAIN geo_storage[1].point_to_values
    /\ geo_storage[1].point_to_values[p] # <<>>

\* C13: a remove_point(p) step sets the bit of p (and no other bit) and
\* increments deleted_count by exactly 1 when storage is present, p is inside
\* the deletion bitset and its bit was 0; in every other case it leaves
\* storage and deleted_count as they were.
C13_RemovePoint ==
    [][lastOp'.op = "remove_point" =>
         LET p == lastOp'.idx
         IN  IF geo_storage # None /\ InGeoBitset(p) /\ GeoDeleted(p) = Some(FALSE)
               THEN /\ geo_storage' # None
                    /\ deleted_get(geo_storage'[1].deleted, p) = Some(TRUE)
                    /\ \A q \in PointIds \ {p} :
                          deleted_get(geo_storage'[1].deleted, q) = GeoDeleted(q)
                    /\ deleted_count' = deleted_count + 1
               ELSE /\ geo_storage' = geo_storage
                    /\ deleted_count' = deleted_count]_vars

\* remove_point has been called on a point with values whose tombstone is
\* set and not yet flushed, in an index where another id is tombstoned too
C13_Witness ==
    /\ lastOp.op = "remove_point"
    /\ HasGeoValues(lastOp.idx)
    /\ GeoTombstonePending(lastOp.idx)
    /\ deleted_count >= 2

\* the snapshot the geo index was built from
Snapshot == dynamic_index[1]

\* p has a geo value in the snapshot whose hash starts with h
HasValueUnder(p, h) ==
    /\ p \in DOMAIN Snapshot.point_to_values
    /\ \E i \in 1..Len(Snapshot.point_to_values[p]) :
          starts_with(Snapshot.point_to_values[p][i], h)

\* the entries of points_map whose range of points_map_ids holds p
EntriesOf(p) ==
    {i \in 1..Len(geo_storage[1].points_map) :
        LET e == geo_storage[1].points_map[i]
        IN  \E k \in (e.ids_start + 1)..e.ids_end : geo_storage[1].points_map_ids[k] = p}

\* C14: soundness of the prefix scan: every point id yielded by
\* stored_sub_regions(h) is in the range of a points_map entry whose hash
\* starts with h, and has a geo value that lies under the prefix h.
C14_SubRegionsSound ==
    geo_storage # None =>
        \A h \in GeoHashes :
            \A p \in Range(stored_sub_regions(h)) :
                /\ \E i \in EntriesOf(p) :
                      starts_with(geo_storage[1].points_map[i].hash, h)
                /\ HasValueUnder(p, h)

\* a scan yields some ids and stops before a later entry of points_map that
\* is outside the prefix, after a remove_point
C14_Witness ==
    /\ geo_storage # None
    /\ lastOp.op = "remove_point"
    /\ \E h \in GeoHashes :
          /\ stored_sub_regions(h) # <<>>
          /\ \E i \in 1..Len(geo_storage[1].points_map) :
                LET e == geo_storage[1].points_map[i]
                IN  /\ hash_cmp(e.hash, h) = "Greater"
                    /\ ~starts_with(e.hash, h)
                    /\ \E k \in (e.ids_start + 1)..e.ids_end :
                          GeoDeleted(geo_storage[1].points_map_ids[k]) = Some(FALSE)

\* C15: completeness of the prefix scan: in every state reached from a built
\* index by remove_point (and flush), for every geohash h, every point that
\* is not tombstoned and has a value whose hash starts with h is yielded by
\* stored_sub_regions(h).
C15_SubRegionsComplete ==
    geo_storage # None =>
        \A h \in GeoHashes :
            LET yielded == Range(stored_sub_regions(h))
            IN  \A p \in PointIds :
                    (GeoDeleted(p) = Some(FALSE) /\ HasValueUnder(p, h))
                        => p \in yielded

\* a scan for a prefix that is no key of points_map starts at the insertion
\* index and yields the points of two entries, past an entry before the
\* lower bound, while a point under the prefix is tombstoned by remove_point
C15_Witness ==
    /\ geo_storage # None
    /\ lastOp.op = "remove_point"
    /\ \E h \in GeoHashes :
          LET found == binary_search_by_hash(geo_storage[1].points_map, h)
              entries == take_while_starts_with(points_map_from(geo_storage[1], h), h)
          IN  /\ ~found.found
              /\ found.index > 0
              /\ Len(entries) >= 2
              /\ stored_sub_regions(h) # <<>>
              /\ HasValueUnder(lastOp.idx, h)
              /\ GeoTombstonePending(lastOp.idx)

\* no geo reader called on the index with this storage shows p
GeoInvisible(self_storage, p) ==
    /\ \A h \in GeoHashes : p \notin Range(stored_sub_regions_of(self_storage, h))
    /\ \A f \in CheckFns : ~check_values_any_of(self_storage, p, f)
    /\ geo_values_count_of(self_storage, p) = 0

\* C16: when remove_point(p) has returned, no geo reader shows p
\* (stored_sub_regions never yields it, check_values_any is false for every
\* predicate, values_count is 0), flushed or not, and this stays so in every
\* later state; the step leaves what the readers show of the other points
\* as it was.
C16_RemovedInvisible ==
    /\ [](lastOp.op = "remove_point" => GeoInvisible(geo_storage, lastOp.idx))
    /\ [][\A p \in PointIds :
            GeoInvisible(geo_storage, p) => GeoInvisible(geo_storage', p)]_vars
    /\ [][lastOp'.op = "remove_point" =>
            LET p == lastOp'.idx
                other(id) == id # p
            IN  /\ \A h \in GeoHashes :
                      stored_sub_regions_of(geo_storage', h) =
                          SelectSeq(stored_sub_regions(h), other)
                /\ \A q \in PointIds \ {p} :
                      /\ geo_values_count_of(geo_storage', q) = geo_values_count(q)
                      /\ \A f \in CheckFns :
                            check_values_any_of(geo_storage', q, f) =
                                check_values_any(q, f)]_vars

\* remove_point has set the tombstone of a point with values, the tombstone
\* is not flushed, and another point is still yielded
C16_Witness ==
    /\ lastOp.op = "remove_point"
    /\ HasGeoValues(lastOp.idx)
    /\ GeoTombstonePending(lastOp.idx)
    /\ stored_sub_regions(<<>>) # <<>>

\* C17: for an index built from a snapshot, in every state reached by
\* remove_point (and flush), points_of_hash(h) is the points-per-hash count
\* of the snapshot for every h in the snapshot's count maps and 0 for every
\* other h, and values_of_hash(h) likewise the values-per-hash count.
C17_CountsOfHash ==
    geo_storage # None =>
        \A h \in GeoHashes :
            /\ points_of_hash(h) =
                  IF h \in DOMAIN Snapshot.points_per_hash
                    THEN Snapshot.points_per_hash[h] ELSE 0
            /\ values_of_hash(h) =
                  IF h \in DOMAIN Snapshot.values_per_hash
                    THEN Snapshot.values_per_hash[h] ELSE 0

\* after a remove_point that set a tombstone, the counts of a hash with
\* more values than points are still those of the snapshot, and a hash that
\* is not in the snapshot was looked up
C17_Witness ==
    /\ lastOp.op = "remove_point"
    /\ GeoTombstonePending(lastOp.idx)
    /\ HasGeoValues(lastOp.idx)
    /\ \E h \in GeoHashes \ {<<>>} :
          /\ HasValueUnder(lastOp.idx, h)
          /\ points_of_hash(h) >= 2
          /\ values_of_hash(h) > points_of_hash(h)
    /\ \E h \in GeoHashes : h \notin DOMAIN Snapshot.points_per_hash

(***************************************************************************)
(* MmapGeoMapIndex::build as a function of its input: the two count maps   *)
(* of the in-memory index are drawn independently of each other.           *)
(***************************************************************************)
CountKeys == { <<0>>, <<1>>, <<1, 0>> }

CountMaps == UNION {[keys -> {1, 2}] : keys \in SUBSET CountKeys}

BuildInputs ==
    { [InMemoryGeoMapIndex([p \in {0} |-> values]) EXCEPT
          !.points_per_hash = points, !.values_per_hash = values_counts] :
        values \in PointValues, points \in CountMaps, values_counts \in CountMaps }

\* the in-memory index before build is called on it; nothing is on disk
BuildInit ==
    \E index \in BuildInputs :
        /\ dynamic_index = Some(index)
        /\ geo_storage = None
        /\ deleted_count = 0
        /\ lastOp = [op |-> "new", idx |-> 0, ret |-> FALSE, ok |-> TRUE]
        /\ storage = None
        /\ active_points_count = 0
        /\ calls = NoCalls
        /\ NoBoundary

\* MmapGeoMapIndex::build: writes the files and opens the index on them
Build ==
    /\ lastOp.op = "new"
    /\ LET opened == MmapGeoMapIndex_open(MmapGeoMapIndex_build(dynamic_index[1]))
       IN  /\ geo_storage' = opened.storage
           /\ deleted_count' = opened.deleted_count
    /\ lastOp' = [op |-> "build", idx |-> 0, ret |-> FALSE, ok |-> TRUE]
    /\ UNCHANGED <<storage, active_points_count, calls, dynamic_index, boundary_vars>>

BuildNext == Build

BuildSpec == BuildInit /\ [][BuildNext]_vars

\* the join of the two count maps on hash, ascending by hash
JoinCounts(index) ==
    LET keys == sorted_hashes((DOMAIN index.points_per_hash)
                                 \cap (DOMAIN index.values_per_hash))
    IN  [i \in 1..Len(keys) |->
            [hash |-> keys[i],
             points |-> index.points_per_hash[keys[i]],
             values |-> index.values_per_hash[keys[i]]]]

\* C18: after build, counts_per_hash is the join of points_per_hash and
\* values_per_hash on hash: one record for each hash present in both maps,
\* none for a hash present in only one, ascending by hash, without
\* zero-filled or skipped slots, also when the key sets of the maps differ.
C18_CountsJoin ==
    (lastOp.op = "build" /\ geo_storage # None) =>
        geo_storage[1].counts_per_hash = JoinCounts(Snapshot)

(***************************************************************************)
(* Further properties of the readers of the inverted index.                *)
(***************************************************************************)
\* p has no values to match: storage is absent, or p is tombstoned, out of
\* range of the bitset or of the token-count slice, or its token count is 0
NoValues(p) ==
    \/ storage = None
    \/ ~is_active(p)
    \/ ~InTokenCountSlice(p)
    \/ storage[1].point_to_tokens_count[p] = 0

\* C19: check_match(Q, p) returns false whenever storage is absent, Q is the
\* empty token set, or p is tombstoned, out of range or has token count 0;
\* so it never returns true for a point that is not active.
C19_CheckMatchFalse ==
    \A p \in PointIds :
        LET no_values == NoValues(p)
        IN  \A q \in ParsedQueries :
                (no_values \/ q = TokensQuery(<<>>)) => check_match(q, p) = Ok(FALSE)

\* remove has tombstoned a point whose document holds a phrase and the
\* tokens of a token-set query (the postings still hold the point)
C19_Witness ==
    /\ lastOp.op = "remove" /\ lastOp.ret
    /\ TombstonePending(lastOp.idx)
    /\ \E ph \in Phrases :
          /\ Len(ph) >= 2
          /\ storage[1].postings.variant = "WithPositions"
          /\ check_compressed_postings_phrase(ph, lastOp.idx, storage[1].postings)
          /\ check_intersection(storage[1].postings, to_token_set(ph), lastOp.idx, 1)
                = Ok(TRUE)

\* C20: values_is_empty(p) is true and values_count(p) is 0 when p is
\* tombstoned, out of range of the bitset or of the token-count slice, or
\* has token count 0 (or storage is absent); otherwise values_is_empty(p) is
\* false and values_count(p) is the stored count; and values_is_empty(p)
\* holds iff values_count(p) = 0.
C20_ValuesEmptyCount ==
    \A p \in PointIds :
        /\ IF NoValues(p)
             THEN values_is_empty(p) /\ values_count(p) = 0
             ELSE /\ ~values_is_empty(p)
                  /\ values_count(p) = storage[1].point_to_tokens_count[p]
        /\ values_is_empty(p) <=> (values_count(p) = 0)

\* after a remove that set a tombstone: a point with a stored count of
\* several tokens, the tombstoned point and an id out of the bitset
C20_Witness ==
    /\ lastOp.op = "remove" /\ lastOp.ret
    /\ TombstonePending(lastOp.idx)
    /\ \E p \in PointIds : values_count(p) >= 2
    /\ \E p \in PointIds : ~InBitset(p)

(***************************************************************************)
(* Rejected mutation, build then open, and the edge cases of filter.       *)
(***************************************************************************)
\* C21: index_tokens and index_document return an error for every input in
\* every state and would write nothing; and a step of either leaves
\* storage (bitset, token counts, vocabulary, postings) and
\* active_points_count as they were.
C21_MutationRejected ==
    /\ [](/\ \A idx \in PointIds : \A tokens \in TokenSets :
                LET r == index_tokens(idx, tokens)
                IN  ~r.ok /\ r.storage = storage
                          /\ r.active_points_count = active_points_count
          /\ \A idx \in PointIds : \A document \in Documents :
                LET r == index_document(idx, document)
                IN  ~r.ok /\ r.storage = storage
                          /\ r.active_points_count = active_points_count)
    /\ [][lastOp'.op \in {"index_tokens", "index_document"} =>
            /\ ~lastOp'.ok
            /\ storage' = storage
            /\ active_points_count' = active_points_count]_vars

\* index_document has been called on an index with an unflushed tombstone
C21_Witness ==
    /\ lastOp.op = "index_document" /\ ~lastOp.ok
    /\ \E p \in PointIds : TombstonePending(p) /\ InSomePosting(p)

\* C22: in the index opened on a directory that create wrote, the bit of
\* point i in the file is set iff point_to_tokens_count[i] = 0 (the padding
\* bits are 0), nothing is pending, and active_points_count is
\* len(point_to_tokens_count) - popcount(bitset), the number of points with
\* a non-zero token count.
C22_BuildThenOpen ==
    (lastOp.op = "open" /\ storage # None) =>
        LET counts == storage[1].point_to_tokens_count
            deleted == storage[1].deleted_points
        IN  /\ \A i \in DOMAIN deleted.bitslice :
                  deleted.bitslice[i] = (i \in DOMAIN counts /\ counts[i] = 0)
            /\ DOMAIN deleted.pending_updates = {}
            /\ active_points_count =
                  Cardinality(DOMAIN counts) - count_ones(deleted.bitslice)
            /\ active_points_count =
                  Cardinality({i \in DOMAIN counts : counts[i] # 0})

\* an index was opened on a snapshot with an empty point and a point with
\* tokens
C22_Witness ==
    /\ lastOp.op = "open" /\ storage # None
    /\ \E i \in DOMAIN storage[1].point_to_tokens_count :
          storage[1].point_to_tokens_count[i] = 0
    /\ active_points_count >= 1

\* C23: in every state, filter on the empty token set yields the empty
\* stream, and so does filter on a token set that holds a token id the
\* posting store does not know.
C23_FilterEdgeCases ==
    /\ filter(TokensQuery(<<>>)) = <<>>
    /\ \A ts \in TokenSets :
          (storage # None
               /\ \E i \in 1..Len(ts) : postings_get(storage[1].postings, ts[i]) = None)
              => filter(TokensQuery(ts)) = <<>>

\* after a remove, a token set holds an unknown token id and a known one
\* whose filter alone yields a point
C23_Witness ==
    /\ storage # None
    /\ lastOp.op = "remove" /\ lastOp.ret
    /\ \E ts \in TokenSets :
          /\ Len(ts) >= 2
          /\ \E i \in 1..Len(ts) : postings_get(storage[1].postings, ts[i]) = None
          /\ \E i \in 1..Len(ts) : filter(TokensQuery(<<ts[i]>>)) # <<>>

(***************************************************************************)
(* The validation collaborator (api/src/grpc/validate.rs).  A validation   *)
(* result is Ok(()) or Err(errors); errors is a set of entries, one per    *)
(* error added under a field: a plain error carries its code, a nested     *)
(* one (a struct's errors merged under a field) carries the inner entries. *)
(***************************************************************************)
Valid == [is_err |-> FALSE, errors |-> {}]
Err(errors) == [is_err |-> TRUE, errors |-> errors]
FieldError(field, code) == [field |-> field, code |-> code, nested |-> {}]
StructErrors(field, inner) == [field |-> field, code |-> "", nested |-> inner]

\* Option<u32> values of the two fields of CreateShardKey
OptionU32 == {None, Some(0), Some(1)}
CreateShardKeys == [replication_factor : OptionU32, shards_number : OptionU32]

\* Validate for grpc::CreateShardKey: each check builds a fresh error map
\* and returns it at once
CreateShardKey_validate(self) ==
    IF self.replication_factor = Some(0)
    THEN Err({FieldError("replication_factor",
                         "Replication factor must be greater than 0")})
    ELSE IF self.shards_number = Some(0)
    THEN Err({FieldError("shards_number",
                         "Shards number must be greater than 0")})
    ELSE Valid

\* the maps handed to ValidateExt for HashMap<K, V>, with V = CreateShardKey
MapKeys == {"a", "b"}
HashMaps == UNION {[keys -> CreateShardKeys] : keys \in SUBSET MapKeys}

\* ValidateExt for HashMap<K, V>: values().find_map(|v| v.validate().err())
\* keeps the error of the first invalid value in the iteration order of the
\* map, which is any order; every outcome the order can produce is returned
HashMap_validate(self) ==
    LET invalid == {k \in DOMAIN self : CreateShardKey_validate(self[k]).is_err}
    IN  IF invalid = {}
        THEN {Valid}
        ELSE {Err({StructErrors("[]", CreateShardKey_validate(self[k]).errors)}) :
                 k \in invalid}

\* the longest ring of a polygon under validation
MaxRingLen == 4

\* GeoPoint values (two distinct points) and the rings drawn from them
GeoPoints == {1, 2}
GeoLineStrings == UNION {[1..n -> GeoPoints] : n \in 0..MaxRingLen}

\* a Result<(), ValidationError>: None for Ok(()), Some(code) for Err
min_length == 4

validate_geo_polygon_line_helper_length_only(line) ==
    IF Len(line) < min_length THEN Some("min_line_length") ELSE None

\* validate_geo_polygon_line_helper: at least min_length points, and closed
validate_geo_polygon_line_helper(line) ==
    LET points == line
    IN  IF Len(points) < min_length
        THEN Some("min_line_length")
        ELSE LET first_point == points[1]
                 last_point == points[Len(points)]
             IN  IF first_point # last_point
                 THEN Some("closed_line")
                 ELSE None

\* validate_geo_polygon_exterior: not empty, then the line helper
validate_geo_polygon_exterior(line) ==
    IF Len(line) = 0
    THEN Some("not_empty")
    ELSE validate_geo_polygon_line_helper(line)

\* validate_geo_polygon_interiors: the error of the first line that has one
validate_geo_polygon_interiors(lines) ==
    LET failing == {i \in 1..Len(lines) :
                       validate_geo_polygon_line_helper(lines[i]) # None}
    IN  IF failing = {}
        THEN None
        ELSE validate_geo_polygon_line_helper(
                 lines[CHOOSE i \in failing : \A j \in failing : i <= j])

\* the derived validation of a message: the error of a field's custom
\* validator is added under the name of the field
custom(field, result) ==
    IF result = None THEN {} ELSE {FieldError(field, result[1])}

\* the interior rings polygons are drawn with: empty, too short, not
\* closed, closed
InteriorRings == {<<>>, <<1, 2, 1>>, <<1, 2, 2, 2>>, <<1, 2, 2, 1>>}
GeoPolygons ==
    [exterior : GeoLineStrings,
     interiors : UNION {[1..n -> InteriorRings] : n \in 0..2}]

\* derived Validate of GeoPolygon: exterior and interiors each have their
\* custom validator
GeoPolygon_validate(self) ==
    LET errors == custom("exterior", validate_geo_polygon_exterior(self.exterior))
                  \cup custom("interiors",
                              validate_geo_polygon_interiors(self.interiors))
    IN  IF errors = {} THEN Valid ELSE Err(errors)

(***************************************************************************)
(* Integers wider than the checker's are pairs <<hi, lo>> standing for     *)
(* hi * 10^9 + lo with 0 <= lo < 10^9, compared as the numbers they stand  *)
(* for.                                                                    *)
(***************************************************************************)
widen(n) == <<n \div 1000000000, n % 1000000000>>
wide_le(a, b) == a[1] < b[1] \/ (a[1] = b[1] /\ a[2] <= b[2])
wide_pred(a) == IF a[2] = 0 THEN <<a[1] - 1, 999999999>> ELSE <<a[1], a[2] - 1>>
wide_succ(a) == IF a[2] = 999999999 THEN <<a[1] + 1, 0>> ELSE <<a[1], a[2] + 1>>

\* -62_135_596_800 and 253_402_300_799
TIMESTAMP_MIN_SECONDS == <<-63, 864403200>>
TIMESTAMP_MAX_SECONDS == <<253, 402300799>>

\* common::validation::validate_range_generic: both bounds are inclusive
validate_range_generic(value, min, max) ==
    LET min_ok == min = None \/ wide_le(min[1], value)
        max_ok == max = None \/ wide_le(value, max[1])
    IN  IF min_ok /\ max_ok THEN None ELSE Some("range")

validate_timestamp_seconds_only(ts) ==
    validate_range_generic(ts.seconds, Some(TIMESTAMP_MIN_SECONDS),
                           Some(TIMESTAMP_MAX_SECONDS))

\* validate_timestamp: seconds in range, then nanos in range
validate_timestamp(ts) ==
    LET seconds == validate_range_generic(ts.seconds,
                                          Some(TIMESTAMP_MIN_SECONDS),
                                          Some(TIMESTAMP_MAX_SECONDS))
    IN  IF seconds # None
        THEN seconds
        ELSE validate_range_generic(widen(ts.nanos), Some(widen(0)),
                                    Some(widen(999999999)))

\* prost_wkt_types::Timestamp values: seconds (i64) at and around both
\* bounds, nanos (i32) at and around both bounds
TimestampSeconds ==
    {wide_pred(TIMESTAMP_MIN_SECONDS), TIMESTAMP_MIN_SECONDS,
     wide_succ(TIMESTAMP_MIN_SECONDS), widen(-1), widen(0), widen(1),
     wide_pred(TIMESTAMP_MAX_SECONDS), TIMESTAMP_MAX_SECONDS,
     wide_succ(TIMESTAMP_MAX_SECONDS)}
TimestampNanos == {-1, 0, 1, 999999998, 999999999, 1000000000}
Timestamps == [seconds : TimestampSeconds, nanos : TimestampNanos]

\* the outcomes validate can return for a request
validate(req) ==
    CASE req.kind = "CreateShardKey" -> {CreateShardKey_validate(req.value)}
      [] req.kind = "HashMap" -> HashMap_validate(req.value)
      [] req.kind = "GeoPolygon" -> {GeoPolygon_validate(req.value)}
      [] req.kind = "Timestamp" ->
            LET errors == custom("timestamp", validate_timestamp(req.value))
            IN  {IF errors = {} THEN Valid ELSE Err(errors)}

\* a request arrives at the boundary; nothing is validated yet
ValidateInit ==
    /\ \/ \E k \in CreateShardKeys :
              request = Some([kind |-> "CreateShardKey", value |-> k])
       \/ \E m \in HashMaps : request = Some([kind |-> "HashMap", value |-> m])
       \/ \E p \in GeoPolygons :
              request = Some([kind |-> "GeoPolygon", value |-> p])
       \/ \E ts \in Timestamps :
              request = Some([kind |-> "Timestamp", value |-> ts])
    /\ validation = None
    /\ payload_storage = None
    /\ lastOp = [op |-> "request", idx |-> 0, ret |-> FALSE, ok |-> TRUE]
    /\ storage = None
    /\ active_points_count = 0
    /\ calls = NoCalls
    /\ dynamic_index = None
    /\ geo_storage = None
    /\ deleted_count = 0

\* the request is validated once
Validate ==
    /\ validation = None
    /\ \E result \in validate(request[1]) :
           /\ validation' = Some(result)
           /\ lastOp' = [op |-> "validate", idx |-> 0, ret |-> FALSE,
                         ok |-> ~result.is_err]
    /\ UNCHANGED <<storage, active_points_count, calls, geo_vars, request,
                   payload_storage>>

ValidateNext == Validate

ValidateSpec == ValidateInit /\ [][ValidateNext]_vars

\* the request that was validated and what validate returned for it
Validated(kind) ==
    /\ validation # None
    /\ request[1].kind = kind

\* the fields of a CreateShardKey that break a rule
ViolatedFields(key) ==
    {f \in {"replication_factor", "shards_number"} : key[f] = Some(0)}

\* the fields errors are reported under
ReportedFields(errors) == {e.field : e \in errors}

\* C24: validation failures are accumulated without short-circuit: the
\* error map of a CreateShardKey holds one entry per violated field (both
\* fields when replication_factor and shards_number are both 0), and the
\* errors of a map of values hold the errors of every invalid value.
C24_Accumulated ==
    /\ Validated("CreateShardKey") =>
           ReportedFields(validation[1].errors) = ViolatedFields(request[1].value)
    /\ Validated("HashMap") =>
           LET values == request[1].value
           IN  UNION {ReportedFields(e.nested) : e \in validation[1].errors} =
               UNION {ViolatedFields(values[k]) : k \in DOMAIN values}

\* a ring with at least 4 points whose first point equals its last point
ClosedRing(line) ==
    /\ Len(line) >= 4
    /\ line[1] = line[Len(line)]

\* C25: a polygon passes validation only if its exterior ring is non-empty,
\* has at least 4 points and is closed (first point = last point) and every
\* interior ring has at least 4 points and is closed; an exterior ring of 3
\* points, an unclosed exterior ring of 4 points, or one invalid interior
\* ring makes validation fail.
C25_GeoPolygon ==
    Validated("GeoPolygon") =>
        LET polygon == request[1].value
            exterior == polygon.exterior
            interiors == polygon.interiors
            passes == ~validation[1].is_err
        IN  /\ passes =>
                   /\ Len(exterior) # 0
                   /\ ClosedRing(exterior)
                   /\ \A i \in 1..Len(interiors) : ClosedRing(interiors[i])
            /\ Len(exterior) = 3 => ~passes
            /\ (Len(exterior) = 4 /\ exterior[1] # exterior[4]) => ~passes
            /\ (\E i \in 1..Len(interiors) : ~ClosedRing(interiors[i])) => ~passes

\* a polygon with a closed exterior ring of 4 points and two closed interior
\* rings was validated and passed
C25_Witness ==
    /\ Validated("GeoPolygon")
    /\ ~validation[1].is_err
    /\ Len(request[1].value.exterior) = 4
    /\ Len(request[1].value.interiors) = 2

\* C26: validate_timestamp accepts a timestamp if and only if
\* -62135596800 <= seconds <= 253402300799 and 0 <= nanos <= 999999999,
\* both bounds inclusive.
C26_TimestampBounds ==
    Validated("Timestamp") =>
        LET ts == request[1].value
        IN  ~validation[1].is_err <=>
                /\ wide_le(<<-63, 864403200>>, ts.seconds)
                /\ wide_le(ts.seconds, <<253, 402300799>>)
                /\ 0 <= ts.nanos
                /\ ts.nanos <= 999999999

\* the timestamp (253402300799, 999999999), at both upper bounds, was
\* validated and accepted
C26_Witness ==
    /\ Validated("Timestamp")
    /\ ~validation[1].is_err
    /\ request[1].value.seconds = <<253, 402300799>>
    /\ request[1].value.nanos = 999999999

(***************************************************************************)
(* The PayloadStorage dispatcher (payload_storage_enum.rs) over the mmap   *)
(* backend.  A Payload is a map from keys to values; Default::default()    *)
(* is the map without keys.                                                *)
(***************************************************************************)
PayloadKeys == {"name", "city"}
PayloadValues == {"John Doe", "Berlin"}
Payloads == UNION {[keys -> PayloadValues] : keys \in SUBSET PayloadKeys}
Payload_default == [k \in {} |-> "John Doe"]
Payload_is_empty(payload) == DOMAIN payload = {}

\* Payload::merge: the keys of the other payload are written over this one
Payload_merge(self, other) ==
    [k \in DOMAIN self \cup DOMAIN other |->
        IF k \in DOMAIN other THEN other[k] ELSE self[k]]

\* the point ids payloads are stored for
PayloadPoints == {100, 101}

\* MmapPayloadStorage::open_or_create on an empty directory
MmapPayloadStorage_open_or_create(populate) ==
    [populate |-> populate, payloads |-> [p \in PayloadPoints |-> None]]

\* MmapPayloadStorage::set: merges into the stored payload, or stores it
MmapPayloadStorage_set(s, point_id, payload) ==
    [s EXCEPT !.payloads[point_id] =
        IF @ = None THEN Some(payload) ELSE Some(Payload_merge(@[1], payload))]

\* MmapPayloadStorage::get: the stored payload, or the default one
MmapPayloadStorage_get(s, point_id) ==
    unwrap_or(s.payloads[point_id], Payload_default)

\* MmapPayloadStorage::clear_all: nothing stays stored
MmapPayloadStorage_clear_all(s) ==
    [s EXCEPT !.payloads = [p \in PayloadPoints |-> None]]

\* From<MmapPayloadStorage> for PayloadStorageEnum
PayloadStorageEnum_from(a) == [variant |-> "MmapPayloadStorage", s |-> a]

\* PayloadStorageEnum::set
PayloadStorageEnum_set(self, point_id, payload) ==
    CASE self.variant = "MmapPayloadStorage" ->
        [self EXCEPT !.s = MmapPayloadStorage_set(@, point_id, payload)]

\* PayloadStorageEnum::get
PayloadStorageEnum_get(self, point_id) ==
    CASE self.variant = "MmapPayloadStorage" ->
        MmapPayloadStorage_get(self.s, point_id)

PayloadStorageEnum_clear_all_keeps(self) == self

\* PayloadStorageEnum::clear_all
PayloadStorageEnum_clear_all(self) ==
    CASE self.variant = "MmapPayloadStorage" ->
        [self EXCEPT !.s = MmapPayloadStorage_clear_all(@)]

\* the most clear_all calls the record of calls tells apart
MaxRounds == 2

\* test_mmap_storage: the storage is opened on a fresh directory, with
\* populate false or true; calls counts the clear_all calls made so far
PayloadInit ==
    /\ \E populate \in BOOLEAN :
           payload_storage =
               Some(PayloadStorageEnum_from(MmapPayloadStorage_open_or_create(populate)))
    /\ lastOp = [op |-> "open_or_create", idx |-> 0, ret |-> FALSE, ok |-> TRUE]
    /\ calls = [opened |-> None, removed |-> {}, cleared |-> 0]
    /\ request = None
    /\ validation = None
    /\ storage = None
    /\ active_points_count = 0
    /\ dynamic_index = None
    /\ geo_storage = None
    /\ deleted_count = 0

\* storage.set(point_id, &payload, &hw_counter).unwrap(); ret tells whether
\* the payload was non-empty
SetPayload ==
    \E point_id \in PayloadPoints : \E payload \in Payloads :
        /\ payload_storage' =
               Some(PayloadStorageEnum_set(payload_storage[1], point_id, payload))
        /\ lastOp' = [op |-> "set", idx |-> point_id,
                      ret |-> ~Payload_is_empty(payload), ok |-> TRUE]
        /\ UNCHANGED <<storage, active_points_count, calls, geo_vars, request,
                       validation>>

\* storage.clear_all(&hw_counter).unwrap()
ClearAll ==
    /\ payload_storage' = Some(PayloadStorageEnum_clear_all(payload_storage[1]))
    /\ lastOp' = [op |-> "clear_all", idx |-> 0, ret |-> FALSE, ok |-> TRUE]
    /\ calls' = [calls EXCEPT !.cleared = IF @ < MaxRounds THEN @ + 1 ELSE @]
    /\ UNCHANGED <<storage, active_points_count, geo_vars, request, validation>>

PayloadNext ==
    \/ SetPayload
    \/ ClearAll

PayloadSpec == PayloadInit /\ [][PayloadNext]_vars

UsizeBits == 8

\* usize subtraction: with overflow checks a result below 0 panics, without
\* them it wraps
usize_sub(a, b, overflow_checks) ==
    IF a >= b THEN Ok(a - b)
    ELSE IF overflow_checks THEN Panic
    ELSE Ok(a - b + 2 ^ UsizeBits)

\* the directory of an index whose storage is present
directory_of(self_storage) ==
    Some([postings |-> self_storage.postings,
          vocab |-> self_storage.vocab,
          deleted_points |-> self_storage.deleted_points.bitslice,
          point_to_tokens_count |-> self_storage.point_to_tokens_count])

\* MmapInvertedIndex::open with the subtraction done in usize: as open when
\* the bitset file has no more set bits than the slice has entries
open_usize(dir, has_positions, overflow_checks) ==
    LET index == open(dir, has_positions)
        num_points ==
            IF dir = None THEN Ok(0)
            ELSE usize_sub(Cardinality(DOMAIN dir[1].point_to_tokens_count),
                           count_ones(dir[1].deleted_points), overflow_checks)
    IN  IF num_points.panicked
          THEN [panicked |-> TRUE, storage |-> None, active_points_count |-> 0]
          ELSE [panicked |-> FALSE, storage |-> index.storage,
                active_points_count |-> num_points.value]

\* the flusher is run, the index is dropped and the directory is opened
\* again, by a build with or without overflow checks
FlushAndReopen ==
    /\ storage # None
    /\ \E overflow_checks \in BOOLEAN :
           LET flushed == flusher[1]
               index == open_usize(directory_of(flushed),
                                   flushed.postings.variant = "WithPositions",
                                   overflow_checks)
           IN  /\ storage' = index.storage
               /\ active_points_count' = index.active_points_count
               /\ lastOp' = [op |-> "reopen", idx |-> 0, ret |-> FALSE,
                             ok |-> ~index.panicked]
    /\ UNCHANGED <<calls, geo_vars, boundary_vars>>

ReopenNext ==
    \/ \E idx \in PointIds : Remove(idx)
    \/ FlushAndReopen

ReopenSpec == Init /\ [][ReopenNext]_vars

\* C28: a flush and a reopen of the same directory after any sequence of
\* remove calls succeeds (the subtraction in open does not underflow) and
\* points_count() of the reopened index equals points_count() just before
\* the flush, also when removed ids lie inside the bitset but past the end
\* of the token-count slice.
C28_ReopenKeepsCount ==
    [][lastOp'.op = "reopen" =>
          /\ lastOp'.ok
          /\ points_count' = points_count]_vars

\* usize::saturating_sub
saturating_sub(a, b) == IF a >= b THEN a - b ELSE 0

\* MmapGeoMapIndex::points_count
MmapGeoMapIndex_points_count ==
    IF geo_storage = None
      THEN 0
      ELSE saturating_sub(Cardinality(DOMAIN geo_storage[1].point_to_values),
                          deleted_count)

\* C29: after build/open and any sequence of remove_point calls,
\* deleted_count equals the number of set bits of the deletion bitset, and
\* points_count() equals the number of point ids p < point_to_values.len()
\* whose bit is not set, also when remove_point was called with ids inside
\* the bitset but >= point_to_values.len().
C29_GeoCounts ==
    geo_storage # None =>
        /\ deleted_count =
               Cardinality({p \in PointIds : InGeoBitset(p) /\ GeoDeleted(p) = Some(TRUE)})
        /\ MmapGeoMapIndex_points_count =
               Cardinality({p \in DOMAIN geo_storage[1].point_to_values :
                               GeoDeleted(p) # Some(TRUE)})

\* C30: in every state reachable from a built index by remove calls, for
\* every point id p inside the token-count slice the tombstone bit of p is
\* set if and only if point_to_tokens_count[p] = 0, and
\* active_points_count is never below 0.
C30_BitCountAgreement ==
    /\ storage # None =>
           \A p \in DOMAIN storage[1].point_to_tokens_count :
               (deleted_get(storage[1].deleted_points, p) = Some(TRUE))
                   <=> (storage[1].point_to_tokens_count[p] = 0)
    /\ active_points_count >= 0

\* every point of an index opened with an active point has been removed:
\* the last remove returned true for an id inside the slice, the counter is
\* down to 0 and an id past the slice is tombstoned as well
C30_Witness ==
    /\ storage # None
    /\ calls.opened # None
    /\ calls.opened[1].active_points_count >= 1
    /\ lastOp.op = "remove"
    /\ lastOp.ret
    /\ lastOp.idx \in DOMAIN storage[1].point_to_tokens_count
    /\ active_points_count = 0
    /\ \E q \in PointIds :
           /\ q \notin DOMAIN storage[1].point_to_tokens_count
           /\ deleted_get(storage[1].deleted_points, q) = Some(TRUE)

====
